---- MODULE Spec2Model ----
(***************************************************************************)
(* Telemetry lifecycle simulator (backend/src/server.js) and the resilient *)
(* client (src/components/DeviceTopology.vue, src/App.vue).                *)
(*                                                                         *)
(* The server part is the device registry, the population tick and the     *)
(* transaction engine tick.  The client part is the reconnecting socket    *)
(* consumer and the entities it draws: inbound frames, decay timers and    *)
(* coalesced redraws.  Each timer callback / event handler is one action.  *)
(***************************************************************************)
EXTENDS Integers, Sequences, FiniteSets, TLC

(***************************************************************************)
(* Registry sizes.  The program seeds 60 devices, protects the first 10,   *)
(* grows up to 80 and shrinks down to 45 (server.js:40,54,69,71); the      *)
(* model keeps the same code with a scaled-down population.                *)
(***************************************************************************)
InitialDevices == 2
MaxDevices == 3
MinDevices == 1
CoreDevices == 1

\* server.js:219  activeIps.length < devices.length * 0.8
TargetNum == 8
TargetDen == 10
\* server.js:221  Math.floor(Math.random() * 3) + 1
MaxNewPerTick == 3
\* server.js:59   nextSuffix % 254
IpModulus == 254
\* server.js:55   devices.length + 100
SuffixBase == 100

STAGE_IDS == <<"AUTH", "ENCRYPT", "DECRYPT", "HASH">>

VARIABLES
    devices,             \* server.js:40   the registry, an array of devices
    activeTransactions,  \* server.js:211  Map ip -> transaction
    emitted,             \* telemetry payloads broadcast by the last step, per source ip
    notice,              \* device_join / device_exit envelopes broadcast by the last step
    started,             \* per ip, how many activeTransactions.set calls the last tick made
    txEvents,            \* per active transaction, the events emitted for it so far
                         \* (see Record)
    finished,            \* the transactions destroyed by the last step, with their events
    lastTick,            \* which timer callback ran last: "none", "population", "engine"
    age                  \* per transaction the last engine tick progressed, the engine
                         \* ticks that have progressed it (kept only where ticks are timed)

VARIABLES
    now,                 \* Date.now(), in ms since the server started
    sessions,            \* server.js:169  wss.clients, in the order they connected
    sent,                \* per session, the texts client.send was called with by the last step
    outbox,              \* the envelopes the last step handed to broadcast or broadcastError
    latestMetrics,       \* server.js:104
    request,             \* the inbound body or text the last step handled
    response             \* the status code the last step answered a POST with, 0 if none

hubVars == <<now, sessions, sent, outbox, latestMetrics, request, response>>

VARIABLES
    mockTransactions,    \* mock-ws-server.js:47  Map ip -> transaction, shared by all sessions
    mockSessions,        \* readyState of every session whose interval is set
    mockLast,            \* per open session and device ip, the stageId of the last packet
                         \* the session was sent for the device, "" if none or if that
                         \* packet had isLastStage
    mockSent             \* what the last step sent: a sequence of at most one record
                         \* with the session and the packet

mockVars == <<mockTransactions, mockSessions, mockLast, mockSent>>

serverVars ==
    <<devices, activeTransactions, emitted, notice, started, txEvents, finished, lastTick,
      age, hubVars, mockVars>>

VARIABLES
    socket,              \* DeviceTopology.vue:158  current socket id, 0 for null
    sockets,             \* readyState of every socket that can still fire an event
    reconnectTimer,      \* DeviceTopology.vue:168  timer handle, 0 for null
    pendingTimers,       \* reconnect timers whose callback has not run nor been cleared
    reconnectAttempts,   \* DeviceTopology.vue:169
    isDisposed,          \* DeviceTopology.vue:170
    wsStatus,            \* App.vue:24  the connection phase shown to the user
    hidden,              \* document.hidden
    lifecycle,           \* "setup", "mounted", "unmounted"
    urlValid,            \* whether new WebSocket(WS_URL) accepts the configured URL:
                         \* "unknown" until the first use, then "valid" or "invalid"
    scheduled,           \* the delays (ms) of the reconnects the last step scheduled
    emits,               \* what the last step emitted to the consumer, in order: the
                         \* status of a 'ws-status', else the event's name
    lastEvent            \* the handler the last step ran

clientVars ==
    <<socket, sockets, reconnectTimer, pendingTimers, reconnectAttempts, isDisposed,
      wsStatus, hidden, lifecycle, urlValid, scheduled, emits, lastEvent>>

VARIABLES
    appDevices,          \* App.vue:29  the consumer's device list, the devices prop
    nodes,               \* DeviceTopology.vue:65,146  the entities drawn, gateway first
    blinkTimeouts,       \* DeviceTopology.vue:166  Map node name -> decay timer handle
    decayTimers,         \* decay timers whose callback has not run nor been cleared:
                         \* handle, the name of the node object the callback holds,
                         \* the delay, and whether that object is still in nodes
    renderQueued,        \* DeviceTopology.vue:167
    frameCallbacks,      \* requestAnimationFrame callbacks waiting for the next frame
    chartInstance,       \* DeviceTopology.vue:23,31  TRUE when the chart (and its option
                         \* builder) exists
    requested,           \* scheduleRender calls since the previous frame:
                         \* "none", "one" or "many"
    redraws,             \* chartInstance.setOption calls the last step made
    cancelled,           \* the pending decay timers the last step cleared
    frame                \* the inbound frame the last step handled, NoFrame if none

trackerVars ==
    <<appDevices, nodes, blinkTimeouts, decayTimers, renderQueued, frameCallbacks,
      chartInstance, requested, redraws, cancelled, frame>>

vars == <<serverVars, clientVars, trackerVars>>

EmptyMap == [k \in {} |-> 0]

(***************************************************************************)
(* Devices                                                                 *)
(***************************************************************************)
\* server.js:40-46, the i-th seeded device (i from 0)
SeedDevice(i) ==
    [id |-> <<"dev", i>>, name |-> <<"IoT Node", i>>, ip |-> <<1, 100 + i>>,
     status |-> "online", lastSeen |-> 0]

\* server.js:55-62, the device a join creates when the registry has len entries
DynDevice(len) ==
    LET nextSuffix == len + SuffixBase
    IN  [id |-> <<"dev-dyn", nextSuffix>>,
         name |-> <<"IoT Node D", nextSuffix>>,
         ip |-> <<2, nextSuffix % IpModulus>>,
         status |-> "online", lastSeen |-> now]

\* Array.prototype.splice(index, 1) on a 1-based sequence
Splice(s, index) == [j \in 1..(Len(s) - 1) |-> IF j < index THEN s[j] ELSE s[j + 1]]

\* Map.prototype.delete
MapDelete(m, k) == [j \in (DOMAIN m) \ {k} |-> m[j]]

\* Map.prototype.set
MapSet(m, k, v) == [j \in (DOMAIN m) \cup {k} |-> IF j = k THEN v ELSE m[j]]

DeviceIps(ds) == {ds[i].ip : i \in DOMAIN ds}

CleanupKeep(txs, removed) == txs

\* server.js:74  activeTransactions.delete(removed.ip)
CleanupTransactions(txs, removed) == MapDelete(txs, removed.ip)

(***************************************************************************)
(* Push channel, server.js:169-192                                         *)
(***************************************************************************)
\* sessions the model follows
MaxSessions == 2

\* server.js:173,182: forEach visits every client, whatever became of the
\* sends before it (WebSocket.send queues the text and returns)
VisitedUntilFailure(ss, i) == \A j \in 1..(i - 1) : ss[j].link = "ok"

Visited(ss, i) == TRUE

\* client.send for every client whatever its readyState
BroadcastToAll(ss, msgs) == [i \in DOMAIN ss |-> msgs]

\* server.js:171-178, the texts each client is sent when msgs are broadcast
Broadcast(ss, msgs) ==
    [i \in DOMAIN ss |->
        IF Visited(ss, i) /\ ss[i].readyState = "OPEN" THEN msgs ELSE <<>>]

\* server.js:181, the envelope broadcastError sends as broadcast does
ErrorEnvelope(errorMsg) == [type |-> "error", message |-> errorMsg]

\* server.js:191, the text a session is sent when it connects
Greeting == [type |-> "info", message |-> "connected"]

\* a step that broadcasts msgs and handles no inbound request
Broadcasts(msgs) ==
    /\ outbox' = msgs
    /\ sent' = Broadcast(sessions, msgs)
    /\ request' = EmptyMap
    /\ response' = 0
    /\ UNCHANGED <<now, sessions>>

(***************************************************************************)
(* Population tick, server.js:49-81                                        *)
(***************************************************************************)
\* what every population tick leaves of the last step's outputs
PopulationSent ==
    /\ emitted' = EmptyMap
    /\ started' = EmptyMap
    /\ lastTick' = "population"
    /\ Broadcasts(notice')
    /\ UNCHANGED <<latestMetrics, age, mockVars>>

\* a population tick with no client of the push channel followed
PopulationDone ==
    /\ PopulationSent
    /\ UNCHANGED <<clientVars, trackerVars>>

\* the add branch taken up to and including the upper size
HasRoomInclusive(ds) == Len(ds) <= MaxDevices

\* server.js:54, devices.length < 80
HasRoom(ds) == Len(ds) < MaxDevices

\* server.js:69, devices.length > 45
HasSpare(ds) == Len(ds) > MinDevices

\* server.js:54-68
DeviceJoins ==
    /\ HasRoom(devices)
    /\ LET newDev == DynDevice(Len(devices))
       IN  /\ devices' = Append(devices, newDev)
           /\ notice' = <<[type |-> "device_join", device |-> newDev]>>
    /\ finished' = {}
    /\ UNCHANGED <<activeTransactions, txEvents>>

\* server.js:54-68
PopulationAdd == DeviceJoins /\ PopulationDone

\* any index of the registry
RemovableAny(ds) == 1..Len(ds)

\* server.js:71, the indexes 10 + Math.floor(Math.random() * (length - 10)) can be
Removable(ds) == (CoreDevices + 1)..Len(ds)

\* server.js:69-80
DeviceExits ==
    /\ HasSpare(devices)
    /\ \E index \in Removable(devices) :
         LET removed == devices[index]
         IN  /\ devices' = Splice(devices, index)
             /\ activeTransactions' = CleanupTransactions(activeTransactions, removed)
             /\ txEvents' = [ip \in DOMAIN activeTransactions' |-> txEvents[ip]]
             /\ finished' = {[ip |-> ip, events |-> txEvents[ip], cause |-> "removed"] :
                               ip \in (DOMAIN activeTransactions) \ (DOMAIN activeTransactions')}
             /\ notice' = <<[type |-> "device_exit", ip |-> removed.ip,
                             name |-> removed.name]>>

\* server.js:69-80
PopulationRemove == DeviceExits /\ PopulationDone

\* server.js:50-54, 69: the tick returns early, or the size guard of the
\* action it drew is false
NothingChanges ==
    /\ notice' = <<>>
    /\ finished' = {}
    /\ UNCHANGED <<devices, activeTransactions, txEvents>>

\* server.js:50-54, 69
PopulationIdle == NothingChanges /\ PopulationDone

\* server.js:49-81
PopulationTick == PopulationAdd \/ PopulationRemove \/ PopulationIdle

(***************************************************************************)
(* Engine tick, server.js:213-327                                          *)
(***************************************************************************)
\* server.js:230-236
NewTransaction(d) ==
    [deviceId |-> d.id, deviceName |-> d.name, deviceIp |-> d.ip,
     stageIndex |-> 0, ticksInStage |-> 0]

AvailableLinksUnfiltered(ds, txs) == DOMAIN ds

\* server.js:224-226
AvailableLinks(ds, txs) == {i \in DOMAIN ds : ds[i].ip \notin DOMAIN txs}

Bump(cnt, k) == MapSet(cnt, k, IF k \in DOMAIN cnt THEN cnt[k] + 1 ELSE 1)

\* server.js:224-237, one iteration of the start loop: every result it can have
StartOne(ds, st) ==
    LET availableLinks == AvailableLinks(ds, st.txs)
    IN  IF availableLinks = {}
        THEN {st}
        ELSE {[txs |-> MapSet(st.txs, ds[i].ip, NewTransaction(ds[i])),
               cnt |-> Bump(st.cnt, ds[i].ip)] : i \in availableLinks}

\* server.js:223, newTransactionsCount iterations
RECURSIVE StartLoop(_, _, _)
StartLoop(ds, st, n) ==
    IF n = 0 THEN {st}
    ELSE UNION {StartOne(ds, s) : s \in StartLoop(ds, st, n - 1)}

\* server.js:219
BelowTarget(ds, txs) == Cardinality(DOMAIN txs) * TargetDen < Len(ds) * TargetNum

\* server.js:215-239
StartPhase(ds, txs) ==
    LET st0 == [txs |-> txs, cnt |-> EmptyMap]
    IN  IF BelowTarget(ds, txs)
        THEN UNION {StartLoop(ds, st0, n) : n \in 1..MaxNewPerTick}
        ELSE {st0}

\* STAGE_IDS[i] of a 0-based index; undefined outside the array
StageIdAt(i) == IF i \in 0..(Len(STAGE_IDS) - 1) THEN STAGE_IDS[i + 1] ELSE "undefined"

\* stage durations with one more extra tick for DECRYPT
StageDurationsLonger(stageId) ==
    CASE stageId = "AUTH" -> 0..1
      [] stageId = "ENCRYPT" -> 1..2
      [] stageId = "DECRYPT" -> 1..4
      [] OTHER -> {0}

\* server.js:249-257, the values stageDurations[currentStageId] || 0 can take
StageDurations(stageId) ==
    CASE stageId = "AUTH" -> 0..1
      [] stageId = "ENCRYPT" -> 1..2
      [] stageId = "DECRYPT" -> 1..3
      [] OTHER -> {0}

\* server.js:245-262, ticksInStage after the dwell step; roll is the random draw
Dwell(t, roll) == IF t.ticksInStage > 0 THEN t.ticksInStage - 1 ELSE roll

\* the random draws open to a transaction on this tick
RollSet(t) ==
    IF t.ticksInStage > 0 THEN {0} ELSE StageDurations(StageIdAt(t.stageIndex))

\* server.js:265
IsLast(t) == t.stageIndex = Len(STAGE_IDS) - 1

PayloadNoLastFlag(t) ==
    [type |-> "telemetry", deviceId |-> t.deviceId, source |-> t.deviceIp,
     status |-> "active", stageId |-> StageIdAt(t.stageIndex),
     isLastStage |-> FALSE]

\* server.js:264, 294-307 (metrics values left out)
Payload(t) ==
    [type |-> "telemetry", deviceId |-> t.deviceId, source |-> t.deviceIp,
     status |-> "active", stageId |-> StageIdAt(t.stageIndex),
     isLastStage |-> IsLast(t)]

EmitsOnExpiry(t, roll) == IF Dwell(t, roll) = 0 THEN <<Payload(t)>> ELSE <<>>

\* server.js:316, the payloads the forEach body broadcasts for one transaction
Emits(t, roll) == <<Payload(t)>>

DeletesNever(t, roll) == FALSE

\* server.js:319-321, TRUE when the body deletes the transaction
Deletes(t, roll) == Dwell(t, roll) = 0 /\ IsLast(t)

AdvanceSkipping(t, roll) ==
    LET ticks == Dwell(t, roll)
    IN  [t EXCEPT !.ticksInStage = ticks,
                  !.stageIndex = IF ticks = 0 THEN t.stageIndex + 2 ELSE t.stageIndex]

\* server.js:319-325, the transaction after the body when it is kept
Advance(t, roll) ==
    LET ticks == Dwell(t, roll)
    IN  [t EXCEPT !.ticksInStage = ticks,
                  !.stageIndex = IF ticks = 0 THEN t.stageIndex + 1 ELSE t.stageIndex]

\* every assignment of one random draw to each active transaction
RECURSIVE Rolls(_, _)
Rolls(keys, txs) ==
    IF keys = {} THEN {EmptyMap}
    ELSE LET k == CHOOSE x \in keys : TRUE
         IN  {MapSet(f, k, r) : r \in RollSet(txs[k]), f \in Rolls(keys \ {k}, txs)}

\* no event emitted yet
NoEvents == [runs |-> <<>>, repeated |-> FALSE]

EventsOf(te, ip) == IF ip \in DOMAIN te THEN te[ip] ELSE NoEvents

(***************************************************************************)
(* The events emitted for a transaction are kept as runs, the sequence of  *)
(* its events with consecutive events of the same stageId and isLastStage  *)
(* taken once, and repeated, TRUE when some event was equal to the one     *)
(* before it.                                                              *)
(***************************************************************************)
Record(h, p) ==
    IF /\ h.runs # <<>>
       /\ h.runs[Len(h.runs)].stageId = p.stageId
       /\ h.runs[Len(h.runs)].isLastStage = p.isLastStage
    THEN [h EXCEPT !.repeated = TRUE]
    ELSE [h EXCEPT !.runs = Append(@, [stageId |-> p.stageId,
                                       isLastStage |-> p.isLastStage])]

RECURSIVE RecordAll(_, _)
RecordAll(h, ps) ==
    IF ps = <<>> THEN h ELSE RecordAll(Record(h, Head(ps)), Tail(ps))

\* server.js:301-305, the metrics of a payload (one sample of the random values)
EngineMetrics == [throughput |-> 500, securityScore |-> 90]

\* server.js:242, the order in which forEach visits the transactions (here by address)
RECURSIVE InOrder(_)
InOrder(ips) ==
    IF ips = {} THEN <<>>
    ELSE LET first == CHOOSE a \in ips :
                         \A b \in ips : a[1] < b[1] \/ (a[1] = b[1] /\ a[2] <= b[2])
         IN  <<first>> \o InOrder(ips \ {first})

\* the payloads of a tick, one transaction after the other
RECURSIVE Flatten(_, _)
Flatten(order, byIp) ==
    IF order = <<>> THEN <<>> ELSE byIp[Head(order)] \o Flatten(Tail(order), byIp)

EngineRuns ==
    \E st \in StartPhase(devices, activeTransactions) :
      \E roll \in Rolls(DOMAIN st.txs, st.txs) :
        LET keys == DOMAIN st.txs
            \* a set() on a key starts a fresh transaction: its event list restarts
            base == [ip \in keys |-> IF ip \in DOMAIN st.cnt THEN NoEvents
                                     ELSE EventsOf(txEvents, ip)]
            evs == [ip \in keys |-> RecordAll(base[ip], Emits(st.txs[ip], roll[ip]))]
            gone == {ip \in keys : Deletes(st.txs[ip], roll[ip])}
        IN  /\ activeTransactions' =
                  [ip \in keys \ gone |-> Advance(st.txs[ip], roll[ip])]
            /\ emitted' = [ip \in keys |-> Emits(st.txs[ip], roll[ip])]
            /\ started' = st.cnt
            /\ txEvents' = [ip \in keys \ gone |-> evs[ip]]
            /\ finished' = {[ip |-> ip, events |-> evs[ip], cause |-> "hash"] : ip \in gone}
            /\ notice' = <<>>
            /\ lastTick' = "engine"
            /\ Broadcasts(Flatten(InOrder(keys), emitted'))
            /\ latestMetrics' = IF \E ip \in keys : emitted'[ip] # <<>>
                                THEN EngineMetrics ELSE latestMetrics
            /\ UNCHANGED devices
            /\ UNCHANGED <<clientVars, trackerVars, mockVars>>

\* server.js:213-327, the callback of the 500 ms interval
EngineTick == EngineRuns /\ UNCHANGED age

\* server.js:213-327, with the ticks of every transaction counted: 1 on the tick
\* that called set() for it, one more on every tick whose forEach visits it
TimedTick ==
    /\ EngineRuns
    /\ age' = [ip \in DOMAIN emitted' |->
                  IF ip \in DOMAIN started' THEN 1 ELSE age[ip] + 1]

(***************************************************************************)
(* Liveness, server.js:39, 84-102                                          *)
(***************************************************************************)
\* server.js:39
DEVICE_OFFLINE_TIMEOUT == 10000

\* server.js:102, the period of the liveness tick; the clock advances by it
LivenessIntervalMs == 2000

\* periods of the clock the model follows
MaxClockSteps == 6

\* server.js:87-99, one device at time t
Flag(dev, t) ==
    LET d1 == IF dev.status = "online" /\ t - dev.lastSeen > DEVICE_OFFLINE_TIMEOUT
              THEN [dev EXCEPT !.status = "offline"] ELSE dev
    IN  IF d1.status = "offline" /\ t - d1.lastSeen <= DEVICE_OFFLINE_TIMEOUT
        THEN [d1 EXCEPT !.status = "online"] ELSE d1

\* what a step that broadcasts nothing and handles no request leaves
Quiet ==
    /\ emitted' = EmptyMap
    /\ notice' = <<>>
    /\ started' = EmptyMap
    /\ finished' = {}
    /\ outbox' = <<>>
    /\ request' = EmptyMap
    /\ response' = 0
    /\ UNCHANGED <<activeTransactions, txEvents, age, latestMetrics, clientVars,
                   trackerVars, mockVars>>

\* server.js:84-102
LivenessTick ==
    /\ devices' = [i \in DOMAIN devices |-> Flag(devices[i], now)]
    /\ lastTick' = "liveness"
    /\ sent' = [i \in DOMAIN sessions |-> <<>>]
    /\ Quiet
    /\ UNCHANGED <<now, sessions>>

\* one period of the liveness tick passes
Pass ==
    /\ now < MaxClockSteps * LivenessIntervalMs
    /\ now' = now + LivenessIntervalMs
    /\ lastTick' = "none"
    /\ sent' = [i \in DOMAIN sessions |-> <<>>]
    /\ Quiet
    /\ UNCHANGED <<devices, sessions>>

(***************************************************************************)
(* Inbound telemetry, server.js:131-162, 190-207                           *)
(***************************************************************************)
\* a JSON value with its typeof
Str(v) == [typeof |-> "string", value |-> v]

Num(v) == [typeof |-> "number", value |-> v]

Obj(v) == [typeof |-> "object", value |-> v]

\* the empty string
Blank == <<"", 0>>

Truthy(x) == x.value # Blank

\* an id no device has
UnknownId == <<"dev-x", 0>>

\* { ...a, ...b }
Merge(a, b) ==
    [k \in (DOMAIN a) \cup (DOMAIN b) |-> IF k \in DOMAIN b THEN b[k] ELSE a[k]]

\* server.js:135,197  !payload.deviceId || typeof payload.deviceId !== "string"
LacksDeviceId(payload) ==
    \/ "deviceId" \notin DOMAIN payload
    \/ ~Truthy(payload.deviceId)
    \/ payload.deviceId.typeof # "string"

\* server.js:140  payload.metrics && typeof payload.metrics !== "object"
\* (the metrics request bodies carry are truthy)
BadMetrics(payload) ==
    /\ "metrics" \in DOMAIN payload
    /\ payload.metrics.typeof # "object"

\* server.js:146  devices.find: the index of the first device with the id, 0 if none
FindDevice(ds, id) ==
    IF \E i \in DOMAIN ds : ds[i].id = id
    THEN CHOOSE i \in DOMAIN ds :
            /\ ds[i].id = id
            /\ \A j \in 1..(i - 1) : ds[j].id # id
    ELSE 0

\* server.js:152-153
Touch(dev, t, payload) ==
    [dev EXCEPT !.lastSeen = t,
                !.status = IF "status" \in DOMAIN payload THEN payload.status
                           ELSE "online"]

\* server.js:160,201  { type: "telemetry", ts, ...payload }
Envelope(t, payload) == Merge([type |-> "telemetry", ts |-> t], payload)

\* the answer to a request that is turned down
Rejected(code, ds, metrics) ==
    [code |-> code, devices |-> ds, latestMetrics |-> metrics, broadcasts |-> <<>>]

\* the POST handler refreshing the first device before it looks the id up
HandlePostTouchingFirst(ds, metrics, t, payload) ==
    IF LacksDeviceId(payload) THEN Rejected(400, ds, metrics)
    ELSE IF BadMetrics(payload) THEN Rejected(400, ds, metrics)
    ELSE LET index == FindDevice(ds, payload.deviceId.value)
             at == IF index = 0 THEN 1 ELSE index
             touched == [ds EXCEPT ![at] = Touch(ds[at], t, payload)]
         IN  IF index = 0 THEN Rejected(404, touched, metrics)
             ELSE [code |-> 200,
                   devices |-> touched,
                   latestMetrics |-> IF "metrics" \in DOMAIN payload
                                     THEN Merge(metrics, payload.metrics.value)
                                     ELSE metrics,
                   broadcasts |-> <<Envelope(t, payload)>>]

\* server.js:131-162, POST /api/telemetry with body payload at time t
HandlePost(ds, metrics, t, payload) ==
    IF LacksDeviceId(payload) THEN Rejected(400, ds, metrics)
    ELSE IF BadMetrics(payload) THEN Rejected(400, ds, metrics)
    ELSE LET index == FindDevice(ds, payload.deviceId.value)
         IN  IF index = 0 THEN Rejected(404, ds, metrics)
             ELSE [code |-> 200,
                   devices |-> [ds EXCEPT ![index] = Touch(ds[index], t, payload)],
                   latestMetrics |-> IF "metrics" \in DOMAIN payload
                                     THEN Merge(metrics, payload.metrics.value)
                                     ELSE metrics,
                   broadcasts |-> <<Envelope(t, payload)>>]

\* the ids request bodies name: the first seeded device's and no device's
KnownId == SeedDevice(0).id

\* request bodies: with and without a usable deviceId, with a status, with
\* metrics that are an object or a string, and with fields of other envelopes
PostBodies ==
    {[deviceId |-> Str(id)] : id \in {KnownId, UnknownId, Blank}}
    \cup {[deviceId |-> Num(<<"7", 0>>)], [status |-> "active"]}
    \cup {[deviceId |-> Str(KnownId), status |-> st] : st \in {"offline", "active"}}
    \cup {[deviceId |-> Str(KnownId), metrics |-> Obj([throughput |-> 1])],
          [deviceId |-> Str(KnownId), status |-> "offline",
           metrics |-> Str([throughput |-> 1])],
          [deviceId |-> Str(UnknownId), status |-> "offline",
           metrics |-> Obj([throughput |-> 1])]}
    \cup {[deviceId |-> Str(KnownId), type |-> "device_exit",
           ip |-> SeedDevice(0).ip, name |-> SeedDevice(0).name],
          [deviceId |-> Str(UnknownId), type |-> "error"]}

\* server.js:131
PostTelemetry ==
    /\ \E payload \in PostBodies :
          LET r == HandlePost(devices, latestMetrics, now, payload)
          IN  /\ devices' = r.devices
              /\ latestMetrics' = r.latestMetrics
              /\ outbox' = r.broadcasts
              /\ sent' = Broadcast(sessions, r.broadcasts)
              /\ request' = payload
              /\ response' = r.code
    /\ emitted' = EmptyMap
    /\ notice' = <<>>
    /\ started' = EmptyMap
    /\ finished' = {}
    /\ lastTick' = "post"
    /\ UNCHANGED <<activeTransactions, txEvents, age, now, sessions, clientVars,
                   trackerVars, mockVars>>

\* the objects clients send over the push channel: with a deviceId of a
\* device or of none, with another envelope's type, and without a string deviceId
WsBodies ==
    {[deviceId |-> Str(KnownId), status |-> "active"],
     [deviceId |-> Str(UnknownId), type |-> "error"],
     [deviceId |-> Num(<<"7", 0>>)],
     [status |-> "active"]}

\* texts a client sends: not JSON, the JSON value null, or a JSON object
WsTexts ==
    {[json |-> "invalid", body |-> EmptyMap], [json |-> "null", body |-> EmptyMap]}
    \cup {[json |-> "object", body |-> b] : b \in WsBodies}

\* the message handler relaying every object
HandleMessageRelayingAll(t, data) ==
    IF data.json # "object" THEN <<ErrorEnvelope("Malformed message")>>
    ELSE <<Envelope(t, data.body)>>

\* server.js:193-206, the envelopes ws.on("message") broadcasts for text data:
\* JSON.parse throws for text that is not JSON, and reading a field of null throws
HandleMessage(t, data) ==
    IF data.json # "object" THEN <<ErrorEnvelope("Malformed message")>>
    ELSE IF LacksDeviceId(data.body)
         THEN <<ErrorEnvelope("deviceId required")>>
         ELSE <<Envelope(t, data.body)>>

\* the message handler refreshing the device as the POST handler does
RegistryAfterMessageTouching(ds, t, data) ==
    IF data.json = "object" /\ ~LacksDeviceId(data.body)
       /\ FindDevice(ds, data.body.deviceId.value) # 0
    THEN LET index == FindDevice(ds, data.body.deviceId.value)
         IN  [ds EXCEPT ![index] = Touch(ds[index], t, data.body)]
    ELSE ds

\* server.js:193-206, the registry after ws.on("message")
RegistryAfterMessage(ds, t, data) == ds

\* server.js:193, a message of an open session
ClientMessage ==
    /\ \E i \in DOMAIN sessions, data \in WsTexts :
          /\ sessions[i].readyState = "OPEN"
          /\ outbox' = HandleMessage(now, data)
          /\ sent' = Broadcast(sessions, outbox')
          /\ devices' = RegistryAfterMessage(devices, now, data)
          /\ request' = data
    /\ response' = 0
    /\ emitted' = EmptyMap
    /\ notice' = <<>>
    /\ started' = EmptyMap
    /\ finished' = {}
    /\ lastTick' = "message"
    /\ UNCHANGED <<activeTransactions, txEvents, age, now, sessions, latestMetrics,
                   clientVars, trackerVars, mockVars>>

\* what a step of a session's connection leaves
SessionStep ==
    /\ lastTick' = "session"
    /\ Quiet
    /\ UNCHANGED <<devices, now>>

\* the qualities of a session's link: sends reach the peer, pile up, or
\* go to a peer that is gone
Links == {"ok", "slow", "dead"}

\* server.js:190-191, a client connects and is greeted
SessionConnects ==
    /\ Len(sessions) < MaxSessions
    /\ sessions' = Append(sessions, [readyState |-> "OPEN", link |-> "ok"])
    /\ sent' = [i \in DOMAIN sessions' |->
                  IF i = Len(sessions')
                  THEN <<Greeting>> ELSE <<>>]
    /\ SessionStep

\* the link of an open session changes
LinkChanges ==
    /\ \E i \in DOMAIN sessions, link \in Links :
          /\ sessions[i].readyState = "OPEN"
          /\ sessions[i].link # link
          /\ sessions' = [sessions EXCEPT ![i].link = link]
    /\ sent' = [i \in DOMAIN sessions' |-> <<>>]
    /\ SessionStep

\* the closing handshake of a session starts
SessionClosing ==
    /\ \E i \in DOMAIN sessions :
          /\ sessions[i].readyState = "OPEN"
          /\ sessions' = [sessions EXCEPT ![i].readyState = "CLOSING"]
    /\ sent' = [i \in DOMAIN sessions' |-> <<>>]
    /\ SessionStep

\* a session is closed: it leaves wss.clients
SessionClosed ==
    /\ \E i \in DOMAIN sessions : sessions' = Splice(sessions, i)
    /\ sent' = [i \in DOMAIN sessions' |-> <<>>]
    /\ SessionStep

(***************************************************************************)
(* Mock server, mock-ws-server.js:44-114: every session has its own        *)
(* interval; all intervals progress the transactions of one shared map.    *)
(***************************************************************************)
\* devices of the mock server the model follows
MockDevices == 1

\* sessions of the mock server connected at the same time
MaxMockSessions == 2

\* mock-ws-server.js:5-12
MockDevice(i) ==
    [id |-> <<"dev", i>>, name |-> <<"IoT", i>>, ip |-> <<1, 100 + i>>]

MockIps == {MockDevice(i).ip : i \in 0..(MockDevices - 1)}

\* mock-ws-server.js:53-58
MockGreeting == [type |-> "info", message |-> "Connected to Mock Lifecycle Server"]

\* mock-ws-server.js:68-84, the transaction of device d after the start or
\* the progress step
MockTransaction(txs, d) ==
    IF d.ip \in DOMAIN txs
    THEN [txs[d.ip] EXCEPT !.stageIndex = @ + 1]
    ELSE [deviceId |-> d.id, deviceName |-> d.name, deviceIp |-> d.ip, stageIndex |-> 0]

\* mock-ws-server.js:86-100 (timestamp and metrics left out)
MockPacket(t) ==
    [source |-> t.deviceIp, status |-> "active",
     stageId |-> StageIdAt(t.stageIndex),
     isLastStage |-> t.stageIndex = Len(STAGE_IDS) - 1]

\* mock-ws-server.js:79, 105-107, the shared map after the callback
MockKept(txs, t) ==
    IF t.stageIndex >= Len(STAGE_IDS) - 1
    THEN MapDelete(txs, t.deviceIp)
    ELSE MapSet(txs, t.deviceIp, t)

\* what a step of the mock server leaves of the rest
MockStep ==
    UNCHANGED <<devices, activeTransactions, emitted, notice, started, txEvents, finished,
                lastTick, age, hubVars, clientVars, trackerVars>>

\* mock-ws-server.js:49-61, a client connects: greeting, interval set
MockConnects ==
    /\ \E s \in (1..MaxMockSessions) \ DOMAIN mockSessions :
          /\ mockSessions' = MapSet(mockSessions, s, "OPEN")
          /\ mockLast' = MapSet(mockLast, s, [ip \in MockIps |-> ""])
          /\ mockSent' = <<[to |-> s, packet |-> MockGreeting]>>
    /\ UNCHANGED mockTransactions
    /\ MockStep

\* mock-ws-server.js:61-108, the interval callback of a session
MockTick ==
    /\ \E s \in DOMAIN mockSessions, i \in 0..(MockDevices - 1) :
          IF mockSessions[s] # "OPEN"
          THEN /\ mockSent' = <<>>
               /\ UNCHANGED <<mockTransactions, mockLast>>
          ELSE LET transaction == MockTransaction(mockTransactions, MockDevice(i))
                   packet == MockPacket(transaction)
               IN  /\ mockSent' = <<[to |-> s, packet |-> packet]>>
                   /\ mockLast' = [mockLast EXCEPT ![s][packet.source] =
                                        IF packet.isLastStage THEN "" ELSE packet.stageId]
                   /\ mockTransactions' = MockKept(mockTransactions, transaction)
    /\ UNCHANGED mockSessions
    /\ MockStep

\* the closing handshake of a session starts; nothing more is sent to it
MockClosing ==
    /\ \E s \in DOMAIN mockSessions :
          /\ mockSessions[s] = "OPEN"
          /\ mockSessions' = [mockSessions EXCEPT ![s] = "CLOSING"]
          /\ mockLast' = MapDelete(mockLast, s)
    /\ mockSent' = <<>>
    /\ UNCHANGED mockTransactions
    /\ MockStep

\* mock-ws-server.js:110-113, the close event: clearInterval
MockClosed ==
    /\ \E s \in DOMAIN mockSessions :
          /\ mockSessions' = MapDelete(mockSessions, s)
          /\ mockLast' = MapDelete(mockLast, s)
    /\ mockSent' = <<>>
    /\ UNCHANGED mockTransactions
    /\ MockStep

(***************************************************************************)
(* Client: reconnecting socket consumer, DeviceTopology.vue:236-291,       *)
(* 349-350, 950-979 and App.vue:64-66.  Handlers are operators on the      *)
(* record c of the client's variables.                                     *)
(***************************************************************************)
\* live sockets and reconnect attempts the model follows
MaxSockets == 3
MaxAttempts == 6

\* DeviceTopology.vue:239-240
BaseDelayMs == 1000
MaxDelayMs == 30000
JitterMs == 250

\* Math.floor(Math.random() * 250) is in 0..249; the draws the model takes
Jitters == {0, JitterMs \div 2, JitterMs - 1}

Min(a, b) == IF a <= b THEN a ELSE b

ReconnectDelayUncapped(attempts, jitter) == BaseDelayMs * 2 ^ attempts + jitter

\* DeviceTopology.vue:239-241
ReconnectDelay(attempts, jitter) ==
    Min(BaseDelayMs * 2 ^ attempts, MaxDelayMs) + jitter

AttemptsKept(attempts) == attempts

\* DeviceTopology.vue:260
AttemptsAfterOpen(attempts) == 0

\* DeviceTopology.vue:243
AttemptsAfterTimer(attempts) == attempts + 1

\* a frame as JSON.parse returns it: type is "missing" when the frame has no
\* type field and "malformed" when the text does not parse; source is NoSource
\* when absent; stageId is "" and throughput 0 when absent; device carries the
\* device of a device_join and the ip and name of a device_exit
NoSource == <<>>

NoDevice == [name |-> <<>>, ip |-> <<>>]

NoFrame ==
    [type |-> "none", source |-> NoSource, stageId |-> "", isLastStage |-> FALSE,
     throughput |-> 0, device |-> NoDevice]

Client ==
    [socket |-> socket, sockets |-> sockets, reconnectTimer |-> reconnectTimer,
     pendingTimers |-> pendingTimers, reconnectAttempts |-> reconnectAttempts,
     isDisposed |-> isDisposed, wsStatus |-> wsStatus, scheduled |-> <<>>,
     emits |-> <<>>,
     appDevices |-> appDevices, devicesChanged |-> FALSE, nodes |-> nodes,
     blinkTimeouts |-> blinkTimeouts, decayTimers |-> decayTimers,
     renderQueued |-> renderQueued, frameCallbacks |-> frameCallbacks,
     chartInstance |-> chartInstance, requested |-> requested, redraws |-> 0,
     cancelled |-> {}, frame |-> NoFrame]

Becomes(c) ==
    /\ socket' = c.socket
    /\ sockets' = c.sockets
    /\ reconnectTimer' = c.reconnectTimer
    /\ pendingTimers' = c.pendingTimers
    /\ reconnectAttempts' = c.reconnectAttempts
    /\ isDisposed' = c.isDisposed
    /\ wsStatus' = c.wsStatus
    /\ scheduled' = c.scheduled
    /\ emits' = c.emits
    /\ appDevices' = c.appDevices
    /\ nodes' = c.nodes
    /\ blinkTimeouts' = c.blinkTimeouts
    /\ decayTimers' = c.decayTimers
    /\ renderQueued' = c.renderQueued
    /\ frameCallbacks' = c.frameCallbacks
    /\ chartInstance' = c.chartInstance
    /\ requested' = c.requested
    /\ redraws' = c.redraws
    /\ cancelled' = c.cancelled
    /\ frame' = c.frame

\* emit('ws-status', status) handled by App.vue:64-66
EmitStatus(c, status) == [c EXCEPT !.wsStatus = status, !.emits = Append(@, status)]

\* window.clearTimeout(handle)
ClearTimeout(c, handle) == [c EXCEPT !.pendingTimers = @ \ {handle}]

\* the handle window.setTimeout returns: one no pending or remembered timer has
FreshTimer(c) ==
    CHOOSE t \in 1..3 :
        /\ t \notin c.pendingTimers \cup {c.reconnectTimer}
        /\ \A u \in 1..(t - 1) : u \in c.pendingTimers \cup {c.reconnectTimer}

\* scheduleReconnect without the clearTimeout of the remembered handle
ScheduleReconnectStacking(c, jitter) ==
    IF c.isDisposed THEN c
    ELSE LET delay == ReconnectDelay(c.reconnectAttempts, jitter)
             t == FreshTimer(c)
         IN  [c EXCEPT !.reconnectTimer = t,
                       !.pendingTimers = @ \cup {t},
                       !.scheduled = Append(@, delay)]

\* DeviceTopology.vue:236-246
ScheduleReconnect(c, jitter) ==
    IF c.isDisposed THEN c
    ELSE LET c1 == IF c.reconnectTimer # 0 THEN ClearTimeout(c, c.reconnectTimer) ELSE c
             delay == ReconnectDelay(c1.reconnectAttempts, jitter)
             t == FreshTimer(c1)
         IN  [c1 EXCEPT !.reconnectTimer = t,
                        !.pendingTimers = @ \cup {t},
                        !.scheduled = Append(@, delay)]

\* WebSocket.close(): CONNECTING and OPEN become CLOSING, the close event follows
CloseSocket(c, s) ==
    IF c.sockets[s] \in {"CONNECTING", "OPEN"}
    THEN [c EXCEPT !.sockets[s] = "CLOSING"]
    ELSE c

\* a closed socket that is no longer the current one fires nothing more
Forget(c) ==
    [c EXCEPT !.sockets =
        [s \in {x \in DOMAIN c.sockets : x = c.socket \/ c.sockets[x] # "CLOSED"}
            |-> c.sockets[s]]]

FreshSocket(c) ==
    CHOOSE s \in 1..(MaxSockets + 1) :
        /\ s \notin DOMAIN c.sockets
        /\ \A u \in 1..(s - 1) : u \in DOMAIN c.sockets

\* DeviceTopology.vue:248-291; valid is FALSE when the constructor throws
StartDataListener(c, valid, jitter) ==
    IF c.isDisposed THEN c
    ELSE LET c1 == EmitStatus(c, "connecting")
             c2 == IF c1.socket # 0 THEN CloseSocket(c1, c1.socket) ELSE c1
         IN  IF valid
             THEN LET s == FreshSocket(c2)
                  IN  Forget([c2 EXCEPT !.socket = s,
                                        !.sockets = MapSet(c2.sockets, s, "CONNECTING")])
             ELSE ScheduleReconnect(EmitStatus(c2, "disconnected"), jitter)

\* DeviceTopology.vue:259-263
OnOpen(c) ==
    EmitStatus([c EXCEPT !.reconnectAttempts = AttemptsAfterOpen(@)], "connected")

\* DeviceTopology.vue:274-277
OnError(c) == EmitStatus(c, "disconnected")

\* the close handler reporting the phase only
OnCloseForgetting(c, jitter) ==
    IF c.isDisposed THEN c ELSE EmitStatus(c, "disconnected")

\* DeviceTopology.vue:279-284
OnClose(c, jitter) ==
    IF c.isDisposed THEN c
    ELSE ScheduleReconnect(EmitStatus(c, "disconnected"), jitter)

\* DeviceTopology.vue:242-245, the reconnect timer's callback
OnReconnectTimer(c, valid, jitter) ==
    StartDataListener([c EXCEPT !.reconnectAttempts = AttemptsAfterTimer(@)],
                      valid, jitter)

HandleVisibilityChangeAlways(c, nowHidden, valid, jitter) ==
    IF nowHidden
    THEN IF c.socket # 0 THEN CloseSocket(c, c.socket) ELSE c
    ELSE StartDataListener(c, valid, jitter)

\* DeviceTopology.vue:950-958; nowHidden is document.hidden
HandleVisibilityChange(c, nowHidden, valid, jitter) ==
    IF nowHidden
    THEN IF c.socket # 0 THEN CloseSocket(c, c.socket) ELSE c
    ELSE IF c.socket = 0 \/ c.sockets[c.socket] = "CLOSED"
         THEN StartDataListener(c, valid, jitter)
         ELSE c

(***************************************************************************)
(* Client: the entities and their activity, DeviceTopology.vue:88-146,     *)
(* 166-234, 1000-1008 and App.vue:75-93, 110-124.                          *)
(***************************************************************************)
\* devices the consumer hears of; the built-in demo list and the server's seeded
\* list have 60 each (DeviceTopology.vue:96, server.js:40)
ViewDevices == 1

DigitChars == <<"0", "1", "2", "3", "4", "5", "6", "7", "8", "9">>

\* the decimal text of n, a sequence of characters
RECURSIVE Digits(_)
Digits(n) ==
    IF n < 10 THEN <<DigitChars[n + 1]>>
    ELSE Digits(n \div 10) \o <<DigitChars[(n % 10) + 1]>>

IpPrefix == Digits(192) \o <<".">> \o Digits(168) \o <<".">>

\* server.js:43,59 and DeviceTopology.vue:101: the text `192.168.<ip[1]>.<ip[2]>`
IpText(ip) == IpPrefix \o Digits(ip[1]) \o <<".">> \o Digits(ip[2])

\* String.prototype.includes
Includes(text, part) ==
    \E i \in 0..(Len(text) - Len(part)) : SubSeq(text, i + 1, i + Len(part)) = part

\* the text of a frame's source, empty when the frame has none
SourceText(source) == IF source = <<>> THEN <<>> ELSE IpText(source)

\* DeviceTopology.vue:195, the predicate of nodes.value.find
Matches(value, source) ==
    IpText(value) = SourceText(source) \/ Includes(IpText(value), SourceText(source))

\* Array.prototype.find: the index of the first matching node, 0 for undefined
Find(ns, source) ==
    IF \E i \in DOMAIN ns : Matches(ns[i].value, source)
    THEN CHOOSE i \in DOMAIN ns :
            /\ Matches(ns[i].value, source)
            /\ \A j \in 1..(i - 1) : ~Matches(ns[j].value, source)
    ELSE 0

GatewayName == <<"A100 Gateway">>

\* DeviceTopology.vue:96-104, the i-th demo device (i from 0)
DemoDevice(i) == [name |-> <<"IoT Demo", i>>, ip |-> <<1, 100 + i>>]

DefaultDevices == [i \in 1..ViewDevices |-> DemoDevice(i - 1)]

\* App.vue:115-119, a device as loadDevices and device_join deliver it
ViewDevice(i) == [name |-> SeedDevice(i).name, ip |-> SeedDevice(i).ip]

\* DeviceTopology.vue:109-114: drop unnamed devices and repeated names
RECURSIVE Dedup(_, _)
Dedup(list, seen) ==
    IF list = <<>> THEN <<>>
    ELSE IF Head(list).name = <<>> \/ Head(list).name \in seen
         THEN Dedup(Tail(list), seen)
         ELSE <<Head(list)>> \o Dedup(Tail(list), seen \cup {Head(list).name})

\* DeviceTopology.vue:89-93, previousState.get(name); 0 for undefined
Previous(ns, name) ==
    IF \E i \in DOMAIN ns : ns[i].name = name
    THEN CHOOSE i \in DOMAIN ns : ns[i].name = name /\ \A j \in (i + 1)..Len(ns) : ns[j].name # name
    ELSE 0

\* props.stage.id, App.vue:32-33
StageProp == "AUTH"

\* DeviceTopology.vue:88-147: the node list built from the device list devs,
\* carrying over the state of the nodes ns that keep their name
BuildNodes(ns, devs) ==
    LET deviceList == Dedup(IF Len(devs) > 0 THEN devs ELSE DefaultDevices, {GatewayName})
        g == Previous(ns, GatewayName)
        gateway == [name |-> GatewayName, value |-> <<1, 1>>,
                    isBlinking |-> IF g # 0 THEN ns[g].isBlinking ELSE FALSE,
                    stageId |-> StageProp,
                    throughput |-> IF g # 0 /\ ns[g].throughput # 0
                                   THEN ns[g].throughput ELSE 100]
        deviceNode(index) ==
            LET device == deviceList[index + 1]
                q == Previous(ns, device.name)
            IN  [name |-> device.name, value |-> device.ip,
                 isBlinking |-> IF q # 0 THEN ns[q].isBlinking ELSE FALSE,
                 stageId |-> IF q # 0 /\ ns[q].stageId # "" THEN ns[q].stageId
                             ELSE StageIdAt(index % Len(STAGE_IDS)),
                 throughput |-> IF q # 0 THEN ns[q].throughput ELSE 0]
    IN  <<gateway>> \o [j \in 1..Len(deviceList) |-> deviceNode(j - 1)]

\* DeviceTopology.vue:146: nodes.value gets new objects, so the node objects the
\* pending decay callbacks hold are no longer in the list
BuildNodesFromDevices(c) ==
    [c EXCEPT !.nodes = BuildNodes(c.nodes, c.appDevices),
              !.decayTimers = {[t EXCEPT !.live = FALSE] : t \in @}]

ScheduleRenderUncoalesced(c) ==
    LET c1 == [c EXCEPT !.requested = IF @ = "none" THEN "one" ELSE "many"]
    IN  IF ~c1.chartInstance \/ c1.isDisposed THEN c1
        ELSE [c1 EXCEPT !.renderQueued = TRUE, !.frameCallbacks = @ + 1]

\* DeviceTopology.vue:172-184, without the callback
ScheduleRender(c) ==
    LET c1 == [c EXCEPT !.requested = IF @ = "none" THEN "one" ELSE "many"]
    IN  IF ~c1.chartInstance \/ c1.renderQueued \/ c1.isDisposed THEN c1
        ELSE [c1 EXCEPT !.renderQueued = TRUE, !.frameCallbacks = @ + 1]

\* DeviceTopology.vue:175-183, the requestAnimationFrame callback
OnAnimationFrame(c) ==
    LET c1 == [c EXCEPT !.renderQueued = FALSE]
    IN  IF c1.isDisposed \/ ~c1.chartInstance THEN c1
        ELSE [c1 EXCEPT !.redraws = @ + 1]

\* a frame runs every callback that was waiting for it
RECURSIVE RunFrame(_, _)
RunFrame(c, n) == IF n = 0 THEN c ELSE RunFrame(OnAnimationFrame(c), n - 1)

\* emit(event, ...) for the events other than 'ws-status'
Emit(c, event) == [c EXCEPT !.emits = Append(@, event)]

\* handleTelemetry comparing the address only
HandleTelemetryByAddress(c, packet) ==
    IF packet.type = "device_join" /\ packet.device # NoDevice
    THEN IF \E i \in DOMAIN c.appDevices : c.appDevices[i].ip = packet.device.ip
         THEN c
         ELSE [c EXCEPT !.appDevices = Append(@, packet.device), !.devicesChanged = TRUE]
    ELSE IF packet.type = "device_exit"
         THEN [c EXCEPT !.appDevices =
                            SelectSeq(@, LAMBDA d : d.ip # packet.device.ip
                                                    /\ d.name # packet.device.name),
                        !.devicesChanged = TRUE]
         ELSE c

\* App.vue:75-93, the device list after handleTelemetry(packet)
HandleTelemetry(c, packet) ==
    IF packet.type = "device_join" /\ packet.device # NoDevice
    THEN IF \E i \in DOMAIN c.appDevices :
                \/ c.appDevices[i].ip = packet.device.ip
                \/ c.appDevices[i].name = packet.device.name
         THEN c
         ELSE [c EXCEPT !.appDevices = Append(@, packet.device), !.devicesChanged = TRUE]
    ELSE IF packet.type = "device_exit"
         THEN [c EXCEPT !.appDevices =
                            SelectSeq(@, LAMBDA d : d.ip # packet.device.ip
                                                    /\ d.name # packet.device.name),
                        !.devicesChanged = TRUE]
         ELSE c

\* DeviceTopology.vue:1000-1008, the watcher of props.devices, run when the
\* handler that replaced the list has returned
FlushWatchers(c) ==
    IF c.devicesChanged /\ ~c.isDisposed
    THEN ScheduleRender(BuildNodesFromDevices(c))
    ELSE c

\* DeviceTopology.vue:219
ClearDelay(packet) == IF packet.isLastStage THEN 3000 ELSE 1100

\* window.setTimeout: a handle no pending decay timer has, written as the
\* node's name and a number
FreshDecayTimer(c, name) ==
    LET used == {t.id[2] : t \in {u \in c.decayTimers : u.id[1] = name}}
    IN  <<name, CHOOSE h \in 1..(Cardinality(used) + 1) :
                    /\ h \notin used
                    /\ \A u \in 1..(h - 1) : u \in used>>

ArmDecayKeeping(c, name, delay) ==
    LET h == FreshDecayTimer(c, name)
    IN  [c EXCEPT !.decayTimers = @ \cup {[id |-> h, name |-> name, delay |-> delay,
                                            live |-> TRUE]},
                  !.blinkTimeouts = MapSet(@, name, h)]

\* window.clearTimeout(handle) for a decay timer
ClearDecay(c, handles) ==
    [c EXCEPT !.decayTimers = {t \in @ : t.id \notin handles},
              !.cancelled = @ \cup {t.id : t \in {u \in c.decayTimers : u.id \in handles}}]

\* DeviceTopology.vue:221-232: cancel the node's timer, arm a new one
ArmDecay(c, name, delay) ==
    LET c1 == IF name \in DOMAIN c.blinkTimeouts
              THEN ClearDecay(c, {c.blinkTimeouts[name]})
              ELSE c
        h == FreshDecayTimer(c1, name)
    IN  [c1 EXCEPT !.decayTimers = @ \cup {[id |-> h, name |-> name, delay |-> delay,
                                             live |-> TRUE]},
                   !.blinkTimeouts = MapSet(@, name, h)]

\* DeviceTopology.vue:195-233: the node the frame names, if any, is updated,
\* blinks and gets a decay timer
ApplyTelemetry(c, packet) ==
    LET i == Find(c.nodes, packet.source)
    IN  IF i = 0 THEN c
        ELSE LET target == c.nodes[i]
                 n1 == IF packet.stageId # ""
                       THEN [target EXCEPT !.stageId = packet.stageId]
                       ELSE target
                 n2 == IF packet.throughput # 0
                       THEN [n1 EXCEPT !.throughput = packet.throughput]
                       ELSE n1
                 n3 == [n2 EXCEPT !.isBlinking = TRUE]
                 c2 == ScheduleRender([c EXCEPT !.nodes[i] = n3])
             IN  ArmDecay(c2, target.name, ClearDelay(packet))

HandleIncomingPacketAnySource(c, packet) ==
    IF c.isDisposed THEN c
    ELSE LET c1 == HandleTelemetry(Emit(Emit(c, "ws-last-message"), "telemetry"), packet)
         IN  IF packet.type \in {"device_join", "device_exit"}
             THEN c1
             ELSE ApplyTelemetry(c1, packet)

\* DeviceTopology.vue:186-234
HandleIncomingPacket(c, packet) ==
    IF c.isDisposed THEN c
    ELSE LET c1 == HandleTelemetry(Emit(Emit(c, "ws-last-message"), "telemetry"), packet)
         IN  IF packet.source = NoSource \/ packet.type \in {"device_join", "device_exit"}
             THEN c1
             ELSE ApplyTelemetry(c1, packet)

\* DeviceTopology.vue:265-272; text that does not parse is logged and dropped
OnMessage(c, packet) ==
    IF packet.type = "malformed" THEN [c EXCEPT !.frame = packet]
    ELSE FlushWatchers(HandleIncomingPacket([c EXCEPT !.frame = packet], packet))

\* DeviceTopology.vue:224-231, the callback of decay timer t
OnDecayTimer(c, t) ==
    IF c.isDisposed THEN c
    ELSE LET c1 == IF t.live
                   THEN LET i == Previous(c.nodes, t.name)
                        IN  [c EXCEPT !.nodes[i].isBlinking = FALSE,
                                      !.nodes[i].throughput = 0]
                   ELSE c
         IN  [ScheduleRender(c1) EXCEPT !.blinkTimeouts = MapDelete(@, t.name)]

\* App.vue:110-124, loadDevices with the list the server returned
LoadDevices(c, newDevices) ==
    IF Len(newDevices) > 0 /\ newDevices # c.appDevices
    THEN [c EXCEPT !.appDevices = newDevices, !.devicesChanged = TRUE]
    ELSE c

\* DeviceTopology.vue:961-978, what onUnmounted does once the flag is set
Teardown(c) ==
    LET c1 == [c EXCEPT !.chartInstance = FALSE]
        c2 == IF c1.socket # 0
              THEN Forget([CloseSocket(c1, c1.socket) EXCEPT !.socket = 0])
              ELSE c1
        c3 == IF c2.reconnectTimer # 0 THEN ClearTimeout(c2, c2.reconnectTimer) ELSE c2
        handles == {c3.blinkTimeouts[k] : k \in DOMAIN c3.blinkTimeouts}
        c4 == [ClearDecay(c3, handles) EXCEPT !.blinkTimeouts = EmptyMap]
    IN  EmitStatus(c4, "disconnected")

OnUnmountedNoFlag(c) == Teardown(c)

\* DeviceTopology.vue:960-979
OnUnmounted(c) == Teardown([c EXCEPT !.isDisposed = TRUE])

CanConnect == Cardinality(DOMAIN sockets) < MaxSockets

\* DeviceTopology.vue:157, 257: the constructor throws for a URL it rejects
Accepts == urlValid = "valid"

\* DeviceTopology.vue:349-353, 931: onMounted starts the listener, then
\* creates the chart and its option builder
OnMounted(c, valid, jitter) ==
    [StartDataListener(c, valid, jitter) EXCEPT !.chartInstance = TRUE]

\* DeviceTopology.vue:349
Mount ==
    /\ lifecycle = "setup"
    /\ urlValid' \in {"valid", "invalid"}
    /\ \E jitter \in Jitters :
          Becomes(OnMounted(Client, urlValid' = "valid", jitter))
    /\ lifecycle' = "mounted"
    /\ lastEvent' = "mount"
    /\ UNCHANGED <<hidden, serverVars>>

\* the open event of socket s
SocketOpen ==
    /\ \E s \in DOMAIN sockets :
          /\ sockets[s] = "CONNECTING"
          /\ Becomes(OnOpen([Client EXCEPT !.sockets[s] = "OPEN"]))
    /\ lastEvent' = "open"
    /\ UNCHANGED <<hidden, lifecycle, urlValid, serverVars>>

\* socket s ends: a failed connection fires error then close, a clean close
\* (asked for by either side) fires close only
SocketClosed ==
    /\ \E s \in DOMAIN sockets, err \in BOOLEAN, jitter \in Jitters :
          /\ sockets[s] # "CLOSED"
          /\ sockets[s] = "CONNECTING" => err
          /\ LET c0 == [Client EXCEPT !.sockets[s] = "CLOSED"]
                 c1 == IF err THEN OnError(c0) ELSE c0
             IN  Becomes(Forget(OnClose(c1, jitter)))
    /\ lastEvent' = "close"
    /\ UNCHANGED <<hidden, lifecycle, urlValid, serverVars>>

ReconnectTimerFires ==
    /\ CanConnect
    /\ reconnectAttempts < MaxAttempts
    /\ \E t \in pendingTimers, jitter \in Jitters :
          Becomes(OnReconnectTimer(ClearTimeout(Client, t), Accepts, jitter))
    /\ lastEvent' = "timer"
    /\ UNCHANGED <<hidden, lifecycle, urlValid, serverVars>>

VisibilityChange ==
    /\ lifecycle = "mounted"
    /\ CanConnect
    /\ hidden' = ~hidden
    /\ \E jitter \in Jitters :
          Becomes(HandleVisibilityChange(Client, hidden', Accepts, jitter))
    /\ lastEvent' = "visibility"
    /\ UNCHANGED <<lifecycle, urlValid, serverVars>>

Unmount ==
    /\ lifecycle = "mounted"
    /\ Becomes(OnUnmounted(Client))
    /\ lifecycle' = "unmounted"
    /\ lastEvent' = "unmount"
    /\ UNCHANGED <<hidden, urlValid, serverVars>>

\* the addresses of the devices inbound frames name
Sources == {ViewDevice(i).ip : i \in 0..(ViewDevices - 1)}

\* addresses of no device: one that is the beginning of a device's address
\* (192.168.1.10) and one no device resembles
Strangers == {<<1, 10>>, <<9, 9>>}

\* server.js:294-307, mock-ws-server.js:88-99: a frame with a source; the mock
\* server sends it without a type
SourcedFrame(type, source, last) ==
    [type |-> type, source |-> source,
     stageId |-> IF last THEN "HASH" ELSE "AUTH", isLastStage |-> last,
     throughput |-> 500, device |-> NoDevice]

\* server.js:181,191: info and error envelopes carry a message only
PlainFrame(type) == [NoFrame EXCEPT !.type = type]

\* server.js:67,78
DeviceFrame(type, device) == [NoFrame EXCEPT !.type = type, !.device = device]

Frames ==
    {SourcedFrame("telemetry", src, last) : src \in Sources, last \in BOOLEAN}
    \cup {SourcedFrame("telemetry", src, FALSE) : src \in Strangers}
    \cup {SourcedFrame(type, ViewDevice(0).ip, FALSE) : type \in {"missing", "error"}}
    \cup {PlainFrame(type) : type \in {"info", "error", "malformed"}}
    \cup {DeviceFrame(type, ViewDevice(ViewDevices - 1)) :
              type \in {"device_join", "device_exit"}}

\* server.js:111-118: the lists GET /api/devices returns, the seeded devices with
\* or without those that joined
DeviceLists == {[j \in 1..n |-> ViewDevice(j - 1)] : n \in 1..ViewDevices}

\* the message event of an open socket
SocketMessage ==
    /\ \E s \in DOMAIN sockets, packet \in Frames :
          /\ sockets[s] = "OPEN"
          /\ Becomes(OnMessage(Client, packet))
    /\ lastEvent' = "message"
    /\ UNCHANGED <<hidden, lifecycle, urlValid, serverVars>>

\* server.js:40-46, 55-62: the devices join and exit notices name: two seeded
\* ones, one that has the first one's name at another address and one that
\* has the first one's address under another name
RosterDevices ==
    {ViewDevice(0), ViewDevice(1),
     [name |-> ViewDevice(0).name, ip |-> DynDevice(0).ip],
     [name |-> DynDevice(0).name, ip |-> ViewDevice(0).ip]}

\* server.js:67,78
RosterFrames ==
    {DeviceFrame(type, d) : type \in {"device_join", "device_exit"}, d \in RosterDevices}

\* the message event of an open socket, for a join or an exit notice
RosterMessage ==
    /\ \E s \in DOMAIN sockets, packet \in RosterFrames :
          /\ sockets[s] = "OPEN"
          /\ Becomes(OnMessage(Client, packet))
    /\ lastEvent' = "message"
    /\ UNCHANGED <<hidden, lifecycle, urlValid, serverVars>>

\* a decay timer's delay has passed
DecayTimerFires ==
    /\ \E t \in decayTimers :
          Becomes(OnDecayTimer([Client EXCEPT !.decayTimers = @ \ {t}], t))
    /\ lastEvent' = "decay"
    /\ UNCHANGED <<hidden, lifecycle, urlValid, serverVars>>

\* the browser paints a frame
AnimationFrame ==
    /\ lifecycle # "setup"
    /\ Becomes([RunFrame(Client, frameCallbacks) EXCEPT !.frameCallbacks = 0,
                                                        !.requested = "none"])
    /\ lastEvent' = "frame"
    /\ UNCHANGED <<hidden, lifecycle, urlValid, serverVars>>

\* App.vue:110-124, 160-166: loadDevices gets the server's list
DevicesLoaded ==
    /\ lifecycle = "mounted"
    /\ \E newDevices \in DeviceLists :
          Becomes(FlushWatchers(LoadDevices(Client, newDevices)))
    /\ lastEvent' = "devices"
    /\ UNCHANGED <<hidden, lifecycle, urlValid, serverVars>>

\* the view of a client whose device list is devs when the component is set up
InitTrackerOf(devs) ==
    /\ appDevices = devs
    /\ nodes = BuildNodes(<<>>, devs)
    /\ blinkTimeouts = EmptyMap
    /\ decayTimers = {}
    /\ renderQueued = FALSE
    /\ frameCallbacks = 0
    /\ chartInstance = FALSE
    /\ requested = "none"
    /\ redraws = 0
    /\ cancelled = {}
    /\ frame = NoFrame

InitTracker == InitTrackerOf(<<>>)

InitClient ==
    /\ socket = 0
    /\ sockets = EmptyMap
    /\ reconnectTimer = 0
    /\ pendingTimers = {}
    /\ reconnectAttempts = 0
    /\ isDisposed = FALSE
    /\ wsStatus = "connecting"
    /\ hidden = FALSE
    /\ lifecycle = "setup"
    /\ urlValid = "unknown"
    /\ scheduled = <<>>
    /\ emits = <<>>
    /\ lastEvent = "none"

NextClient ==
    \/ Mount
    \/ SocketOpen
    \/ SocketClosed
    \/ ReconnectTimerFires
    \/ VisibilityChange
    \/ Unmount

\* server.js:40-46, 104-108, 211: the server after start with n seeded devices
InitServerOf(n) ==
    /\ devices = [i \in 1..n |-> SeedDevice(i - 1)]
    /\ activeTransactions = EmptyMap
    /\ emitted = EmptyMap
    /\ notice = <<>>
    /\ started = EmptyMap
    /\ txEvents = EmptyMap
    /\ finished = {}
    /\ lastTick = "none"
    /\ age = EmptyMap
    /\ mockTransactions = EmptyMap
    /\ mockSessions = EmptyMap
    /\ mockLast = EmptyMap
    /\ mockSent = <<>>
    /\ now = 0
    /\ sessions = <<>>
    /\ sent = <<>>
    /\ outbox = <<>>
    /\ latestMetrics = [throughput |-> 850, securityScore |-> 95]
    /\ request = EmptyMap
    /\ response = 0

InitServer == InitServerOf(InitialDevices)

Init == InitServer /\ InitClient /\ InitTracker

NextServer == EngineTick \/ PopulationTick

SpecServer == Init /\ [][NextServer]_vars

SpecClient == Init /\ [][NextClient]_vars

\* a reconnect timer is pending and the model follows its callback
TimerDue ==
    /\ CanConnect
    /\ reconnectAttempts < MaxAttempts
    /\ pendingTimers # {}

\* DeviceTopology.vue:242-245: the step of the reconnect timer's callback, the
\* only step that counts an attempt
TimerRuns ==
    /\ TimerDue
    /\ lastEvent' = "timer"
    /\ reconnectAttempts' = AttemptsAfterTimer(reconnectAttempts)

\* DeviceTopology.vue:242: a reconnect timer that stays pending fires when its
\* delay has passed (window.setTimeout)
SpecClientFair == SpecClient /\ WF_reconnectAttempts(TimerRuns)

\* the entities' side of the client: one connection, its frames, the decay
\* timers, the frames painted and the device list
NextTracker ==
    \/ Mount
    \/ SocketOpen
    \/ SocketMessage
    \/ SocketClosed
    \/ DecayTimerFires
    \/ AnimationFrame
    \/ DevicesLoaded
    \/ Unmount

SpecTracker == Init /\ [][NextTracker]_vars

\* the push channel of the server: sessions that come and go, the notices of
\* the population tick and inbound messages
NextHub ==
    \/ SessionConnects
    \/ LinkChanges
    \/ SessionClosing
    \/ SessionClosed
    \/ ClientMessage
    \/ PopulationTick

SpecHub == Init /\ [][NextHub]_vars

\* the engine broadcasting to sessions whose links degrade
NextLoop ==
    \/ SessionConnects
    \/ LinkChanges
    \/ EngineTick

SpecLoop == Init /\ [][NextLoop]_vars

\* the engine and the messages of connected clients
NextRelay ==
    \/ SessionConnects
    \/ ClientMessage
    \/ EngineTick

SpecRelay == Init /\ [][NextRelay]_vars

\* the registry under inbound telemetry, joins and the liveness tick
NextIngest ==
    \/ Pass
    \/ LivenessTick
    \/ PostTelemetry
    \/ PopulationAdd

SpecIngest == Init /\ [][NextIngest]_vars

\* the engine's telemetry while time passes and the liveness tick runs
NextEmission ==
    \/ Pass
    \/ LivenessTick
    \/ EngineTick

SpecEmission == Init /\ [][NextEmission]_vars

\* seeded devices of the larger registry
FleetSize == 5

\* the first engine ticks of a server with FleetSize devices: the ticks
\* until a transaction leaves its second stage
FleetTick ==
    /\ \A ip \in DOMAIN activeTransactions : activeTransactions[ip].stageIndex <= 1
    /\ EngineTick

InitFleet == InitServerOf(FleetSize) /\ InitClient /\ InitTracker

SpecFleet == InitFleet /\ [][FleetTick]_vars

\* the engine alone, every tick counted
SpecLifetime == Init /\ [][TimedTick]_vars

\* the mock server and its sessions
NextMock ==
    \/ MockConnects
    \/ MockTick
    \/ MockClosing
    \/ MockClosed

SpecMock == Init /\ [][NextMock]_vars

\* server.js:111-118, App.vue:115-119: the list loadDevices makes of the
\* registry GET /api/devices returns
Snapshot(ds) == [i \in DOMAIN ds |-> [name |-> ds[i].name, ip |-> ds[i].ip]]

\* server.js:67,78, DeviceTopology.vue:267: the frame the client parses from a
\* join or exit notice
NoticeFrame(n) ==
    IF n.type = "device_join"
    THEN DeviceFrame(n.type, [name |-> n.device.name, ip |-> n.device.ip])
    ELSE DeviceFrame(n.type, [name |-> n.name, ip |-> n.ip])

\* DeviceTopology.vue:265-272: the connected client handles the notice of this
\* population tick, if there is one
NoticeApplied ==
    /\ socket # 0
    /\ sockets[socket] = "OPEN"
    /\ IF notice' = <<>>
       THEN UNCHANGED <<clientVars, trackerVars>>
       ELSE /\ Becomes(OnMessage(Client, NoticeFrame(notice'[1])))
            /\ lastEvent' = "message"
            /\ UNCHANGED <<hidden, lifecycle, urlValid>>

MirrorJoin == DeviceJoins /\ PopulationSent /\ NoticeApplied

MirrorExit == DeviceExits /\ PopulationSent /\ NoticeApplied

MirrorIdle == NothingChanges /\ PopulationSent /\ NoticeApplied

\* the registry under population ticks and the device list of a client that
\* loaded the registry and receives every notice
NextMirror ==
    \/ Mount
    \/ SocketOpen
    \/ AnimationFrame
    \/ MirrorJoin
    \/ MirrorExit
    \/ MirrorIdle

\* App.vue:160-166: the client has loaded the registry
InitMirror == InitServer /\ InitClient /\ InitTrackerOf(Snapshot(devices))

SpecMirror == InitMirror /\ [][NextMirror]_vars

\* the device list of the client under join and exit notices
NextRoster ==
    \/ Mount
    \/ SocketOpen
    \/ RosterMessage
    \/ DevicesLoaded

SpecRoster == Init /\ [][NextRoster]_vars

(***************************************************************************)
(* Properties of the server                                                *)
(***************************************************************************)
StagesOf(h) == [i \in DOMAIN h.runs |-> h.runs[i].stageId]

\* isLastStage of the last event recorded in h
LastFlag(h) == h.runs[Len(h.runs)].isLastStage

IsPrefix(s, t) == Len(s) <= Len(t) /\ \A i \in DOMAIN s : s[i] = t[i]

ByHash == {f \in finished : f.cause = "hash"}

ByRemoval == {f \in finished : f.cause = "removed"}

C2_LastEventTerminalAlways ==
    \A f \in finished :
        f.events.runs # <<>> /\ LastFlag(f.events)

\* C2 (amended): the last event of a transaction deleted by dwell expiry at
\* HASH has isLastStage = TRUE; the last event of a transaction deleted
\* because its device was removed has isLastStage = FALSE.
C2_LastEventTerminalAtHash ==
    /\ \A f \in ByHash : f.events.runs # <<>> /\ LastFlag(f.events)
    /\ \A f \in ByRemoval : f.events.runs # <<>> /\ ~LastFlag(f.events)

C2_Witness ==
    \E f \in ByHash : f.events.runs # <<>> /\ LastFlag(f.events)

\* C3: no two devices of the registry have the same address.
C3_UniqueAddress ==
    \A i, j \in DOMAIN devices : i # j => devices[i].ip # devices[j].ip

\* C4: every active transaction belongs to an address of the registry and is
\* stored under its own address; a device_exit step leaves no transaction of
\* the removed address.
C4_NoDanglingTransaction ==
    /\ \A ip \in DOMAIN activeTransactions :
          /\ ip \in DeviceIps(devices)
          /\ activeTransactions[ip].deviceIp = ip
    /\ \A i \in DOMAIN notice :
          notice[i].type = "device_exit" => notice[i].ip \notin DOMAIN activeTransactions

C4_Witness == ByRemoval # {}

\* C5: an engine tick calls set() at most once per address and only for an
\* address that had no transaction when the tick began, so a transaction in
\* flight is never replaced; every transaction is stored under its address.
C5_StartOnlyIdle ==
    [][/\ \A ip \in DOMAIN started' :
            started'[ip] = 1 /\ ip \notin DOMAIN activeTransactions
       /\ \A ip \in DOMAIN activeTransactions' :
            activeTransactions'[ip].deviceIp = ip]_vars

C5_Witness == Cardinality(DOMAIN started) >= 2

\* the addresses the last engine tick progressed
Progressed == (DOMAIN activeTransactions) \cup {f.ip : f \in ByHash}

\* TRUE when the dwell of the transaction of ip expired on the last engine tick
Expired(ip) ==
    ip \notin DOMAIN activeTransactions \/ activeTransactions[ip].ticksInStage = 0

C7_StageAdvancesByOne ==
    /\ [](\A ip \in DOMAIN activeTransactions :
            activeTransactions[ip].stageIndex \in 0..(Len(STAGE_IDS) - 1))
    /\ [][\A ip \in (DOMAIN activeTransactions) \cap (DOMAIN activeTransactions') :
            ip \notin DOMAIN started' =>
               \/ activeTransactions'[ip].stageIndex = activeTransactions[ip].stageIndex
               \/ activeTransactions'[ip].stageIndex = activeTransactions[ip].stageIndex + 1
         ]_vars

C7_Witness ==
    \E ip \in DOMAIN activeTransactions :
        activeTransactions[ip].stageIndex = Len(STAGE_IDS) - 1

(***************************************************************************)
(* Properties of the client                                                *)
(***************************************************************************)
\* the bounds the claim gives for the delay after k failed attempts
DelayLow(k) == IF 1000 * 2 ^ k <= 30000 THEN 1000 * 2 ^ k ELSE 30000

DelayHigh(k) == DelayLow(k) + 250

C9_AttemptsResetOnlyOnOpen ==
    [][/\ lastEvent' = "open" => reconnectAttempts' = 0
       /\ reconnectAttempts' < reconnectAttempts => lastEvent' = "open"
       /\ lastEvent' = "timer" => reconnectAttempts' = reconnectAttempts + 1
       /\ reconnectAttempts' > reconnectAttempts => lastEvent' = "timer"]_vars

C9_Witness ==
    /\ lastEvent = "open"
    /\ reconnectAttempts = 0
    /\ reconnectTimer # 0

PhaseCycle ==
    {<<"disconnected", "connecting">>, <<"connecting", "connected">>,
     <<"connected", "disconnected">>, <<"connecting", "disconnected">>}

\* C10: the reported phase changes only along disconnected -> connecting ->
\* connected -> disconnected or connecting -> disconnected; in particular it
\* never goes from connected directly to connecting.
C10_PhaseFollowsCycle ==
    [][wsStatus' # wsStatus => <<wsStatus, wsStatus'>> \in PhaseCycle]_vars

\* C11: while the page is hidden (from the step that hides it on) no step arms
\* a reconnect timer and no step creates a socket.
C11_HiddenSuspends ==
    [][hidden' => (scheduled' = <<>> /\ DOMAIN sockets' \subseteq DOMAIN sockets)]_vars

\* the step is the visibilitychange handler running for a page that became visible
Resumes == lastEvent' = "visibility" /\ hidden /\ ~hidden'

NoLiveSocket == socket = 0 \/ sockets[socket] = "CLOSED"

\* C12: when the page becomes visible and the client has no socket or a CLOSED
\* one, that same step starts a connect (phase connecting, a new CONNECTING
\* socket when the constructor accepts the URL) and leaves reconnectAttempts as
\* it was; when the client has a socket that is not CLOSED the step starts
\* nothing.
C12_ResumeConnectsAtOnce ==
    [][Resumes =>
         IF NoLiveSocket
         THEN /\ emits' # <<>> /\ emits'[1] = "connecting"
              /\ reconnectAttempts' = reconnectAttempts
              /\ Accepts => /\ socket' \notin DOMAIN sockets
                            /\ sockets'[socket'] = "CONNECTING"
         ELSE /\ emits' = <<>>
              /\ socket' = socket
              /\ DOMAIN sockets' = DOMAIN sockets
              /\ scheduled' = <<>>]_vars

\* a resume started a connect although a reconnect had already been counted
C12_Witness ==
    /\ lastEvent = "visibility"
    /\ ~hidden
    /\ emits # <<>>
    /\ reconnectAttempts >= 1
    /\ socket # 0 /\ sockets[socket] = "CONNECTING"

\* C13: once the component is unmounted it stays unmounted, and no later step
\* creates a socket, makes one current, arms a timer or schedules a reconnect.
C13_TeardownIsTerminal ==
    [][lifecycle = "unmounted" =>
         /\ lifecycle' = "unmounted"
         /\ DOMAIN sockets' \subseteq DOMAIN sockets
         /\ socket' = 0
         /\ pendingTimers' \subseteq pendingTimers
         /\ scheduled' = <<>>]_vars

\* the close event of the socket that teardown closed has arrived
C13_Witness ==
    /\ lifecycle = "unmounted"
    /\ lastEvent = "close"
    /\ sockets = EmptyMap

\* C14: once the component is unmounted no step changes an entity, the attempt
\* counter or the reported phase, redraws the chart, or emits anything to the
\* consumer.
C14_SilentAfterTeardown ==
    [][lifecycle = "unmounted" =>
         /\ nodes' = nodes
         /\ reconnectAttempts' = reconnectAttempts
         /\ wsStatus' = wsStatus
         /\ redraws' = 0
         /\ emits' = <<>>]_vars

\* C15: in the state teardown leaves, no reconnect timer is pending, the socket
\* reference is null and every socket is closing or closed, no decay timer is
\* pending or remembered, and renderQueued is false.
C15_CleanAfterTeardown ==
    lastEvent = "unmount" =>
        /\ pendingTimers = {}
        /\ socket = 0
        /\ \A s \in DOMAIN sockets : sockets[s] \in {"CLOSING", "CLOSED"}
        /\ decayTimers = {}
        /\ blinkTimeouts = EmptyMap
        /\ ~renderQueued

\* C16: every pending decay timer is the one blinkTimeouts remembers for its
\* node, so a node never has two pending decay timers and the only timer that
\* can fire for it is the one armed last.
C16_OneDecayTimerPerNode ==
    \A t \in decayTimers :
        /\ t.name \in DOMAIN blinkTimeouts
        /\ blinkTimeouts[t.name] = t.id
        /\ \A u \in decayTimers : u.name = t.name => u = t

\* a frame arrived for a node whose decay timer was pending: that timer was
\* cleared and one timer is pending
C16_Witness ==
    /\ lastEvent = "message"
    /\ cancelled # {}
    /\ Cardinality(decayTimers) = 1

\* the last step handled a telemetry frame whose source is node k's address
TelemetryFor(k) ==
    lastEvent = "message" /\ frame.type = "telemetry" /\ frame.source = nodes[k].value

\* the step ran the callback of decay timer t
Fired(t) == lastEvent' = "decay" /\ t \in decayTimers /\ t \notin decayTimers'

\* C17: after a telemetry frame for a node, the node is blinking and its decay
\* timer is pending with a delay of 3000 when the frame had isLastStage and of
\* 1100 otherwise; after a node's decay timer has fired the node is not
\* blinking, its throughput is 0 and blinkTimeouts has no handle for it.
C17_ArmThenDecay ==
    /\ [](\A k \in DOMAIN nodes :
            TelemetryFor(k) =>
                /\ nodes[k].isBlinking
                /\ \E t \in decayTimers :
                      /\ t.name = nodes[k].name
                      /\ t.delay = IF frame.isLastStage THEN 3000 ELSE 1100)
    /\ [][\A t \in decayTimers : \A k \in DOMAIN nodes' :
              Fired(t) /\ nodes'[k].name = t.name =>
                  /\ ~nodes'[k].isBlinking
                  /\ nodes'[k].throughput = 0
                  /\ t.name \notin DOMAIN blinkTimeouts']_vars

\* C18 as stated: every frame redraws once when scheduleRender was called since
\* the previous frame, and not at all otherwise.
C18_OneRedrawPerFrame ==
    [][lastEvent' = "frame" =>
         redraws' = IF requested # "none" THEN 1 ELSE 0]_vars

\* C18, amended: the same for every frame painted before teardown; a frame
\* painted after teardown redraws nothing.  At most one frame callback is ever
\* waiting, and while the component is mounted a render requested since the
\* previous frame has one waiting.
C18_OneRedrawPerFrameUntilTeardown ==
    /\ [](/\ frameCallbacks <= 1
          /\ lifecycle = "mounted" /\ requested # "none" =>
                 renderQueued /\ frameCallbacks = 1)
    /\ [][lastEvent' = "frame" =>
             redraws' = IF requested # "none" /\ ~isDisposed THEN 1 ELSE 0]_vars

\* scheduleRender was called more than once since the previous frame and one
\* callback is waiting
C18_Witness ==
    /\ requested = "many"
    /\ ~isDisposed
    /\ renderQueued
    /\ frameCallbacks = 1

\* the step handled inbound frame f
Handled(f) == lastEvent' = "message" /\ frame' = f

EntitiesUnchanged ==
    nodes' = nodes /\ blinkTimeouts' = blinkTimeouts /\ decayTimers' = decayTimers

TimersOf(timers, name) == {t \in timers : t.name = name}

\* C20: a telemetry frame changes no node whose address differs from the
\* frame's source, and arms or clears no decay timer of such a node; so a frame
\* whose source is no node's address changes nothing.
C20_OnlyTheAddressedNode ==
    [][\A f \in Frames :
          Handled(f) /\ f.type = "telemetry" =>
              \A k \in DOMAIN nodes :
                  nodes[k].value # f.source =>
                      /\ nodes'[k] = nodes[k]
                      /\ TimersOf(decayTimers', nodes[k].name)
                             = TimersOf(decayTimers, nodes[k].name)]_vars

(***************************************************************************)
(* Properties of the client's device list                                  *)
(***************************************************************************)
\* no two entries of the device list share an address or a name
UniqueEntries(list) ==
    \A i, j \in DOMAIN list :
        i # j => list[i].ip # list[j].ip /\ list[i].name # list[j].name

\* the step handles a device_join whose address or name the list already has
JoinOfPresent ==
    /\ Handled(frame')
    /\ frame'.type = "device_join"
    /\ \E i \in DOMAIN appDevices :
           \/ appDevices[i].ip = frame'.device.ip
           \/ appDevices[i].name = frame'.device.name

\* C21: a device_join whose address or name is already in the device list
\* leaves the list unchanged, and under join and exit notices the list never
\* holds two entries with the same address or the same name
C21_JoinKeepsListUnique ==
    /\ [](UniqueEntries(appDevices))
    /\ [][JoinOfPresent => appDevices' = appDevices]_vars

\* a join was handled for a device that is not in the list while an entry
\* with its address or its name is
C21_Witness ==
    /\ lastEvent = "message"
    /\ frame.type = "device_join"
    /\ \A i \in DOMAIN appDevices : appDevices[i] # frame.device
    /\ \E i \in DOMAIN appDevices : appDevices[i].name = frame.device.name
    /\ Len(appDevices) > 1

(***************************************************************************)
(* Properties of the push channel                                          *)
(***************************************************************************)
\* the step leaves the sessions as they are
SameSessions == sessions' = sessions

\* C22: every envelope a step broadcasts is sent once to each session that is
\* open at that step and to no other; a session that connects is sent its
\* greeting only, nothing that was broadcast before it connected
C22_SentOnceToOpenSessions ==
    [][/\ DOMAIN sent' = DOMAIN sessions'
       /\ SameSessions =>
             \A i \in DOMAIN sessions :
                 sent'[i] = IF sessions[i].readyState = "OPEN" THEN outbox' ELSE <<>>
       /\ ~SameSessions =>
             /\ outbox' = <<>>
             /\ \A i \in DOMAIN sessions' :
                    sent'[i] = IF Len(sessions') > Len(sessions) /\ i = Len(sessions')
                               THEN <<Greeting>> ELSE <<>>]_vars

\* an envelope was broadcast while one session was open and another closing
C22_Witness ==
    /\ outbox # <<>>
    /\ \E i, j \in DOMAIN sessions :
           /\ sessions[i].readyState = "OPEN" /\ sent[i] = outbox
           /\ sessions[j].readyState = "CLOSING" /\ sent[j] = <<>>

\* the engine tick has an outcome: the callback can run
EngineCanRun == StartPhase(devices, activeTransactions) # {}

Unusable(data) == data.json # "object" \/ LacksDeviceId(data.body)

\* C24: for a client message that does not parse or lacks a string deviceId
\* the server broadcasts exactly one error envelope, sent to every open
\* session, and no telemetry envelope; messages and ticks are handled after it
C24_OneErrorForBadMessage ==
    /\ [][(lastTick' = "message" /\ Unusable(request'))
           => /\ Len(outbox') = 1
              /\ outbox'[1].type = "error"
              /\ \A i \in DOMAIN sessions :
                     sent'[i] = IF sessions[i].readyState = "OPEN" THEN outbox'
                                ELSE <<>>]_vars
    /\ []((lastTick = "message" /\ Unusable(request))
             => ENABLED ClientMessage /\ ENABLED PopulationTick)

\* an object without a deviceId was answered with one error envelope, sent to
\* the open session and not to the closing one
C24_Witness ==
    /\ lastTick = "message"
    /\ request.json = "object"
    /\ LacksDeviceId(request.body)
    /\ outbox = <<ErrorEnvelope("deviceId required")>>
    /\ \E i, j \in DOMAIN sessions :
           /\ sessions[i].readyState = "OPEN" /\ sent[i] = outbox
           /\ sessions[j].readyState = "CLOSING" /\ sent[j] = <<>>

\* C25: a message of a client over the push channel, usable or not, and the
\* broadcast it causes leave the registry (members, status, lastSeen) and
\* the transaction map as they were
C25_MessagesLeaveRegistry ==
    [][/\ lastTick' = "message"
             => devices' = devices /\ activeTransactions' = activeTransactions
       /\ outbox' # <<>> => devices' = devices]_vars

\* a message naming a registered device was relayed while transactions ran
C25_Witness ==
    /\ lastTick = "message"
    /\ ~Unusable(request)
    /\ FindDevice(devices, request.body.deviceId.value) # 0
    /\ outbox # <<>>
    /\ sent # <<>>
    /\ activeTransactions # EmptyMap

(***************************************************************************)
(* Properties of inbound telemetry and of liveness                         *)
(***************************************************************************)
\* C26: a POST telemetry request without a string deviceId or with metrics
\* that are not an object is answered 400, one for an unknown deviceId 404,
\* and a request answered 400 or 404 changes neither the registry (members,
\* status, lastSeen) nor the latest metrics nor the transactions, and
\* broadcasts nothing
C26_RejectedPostChangesNothing ==
    [][lastTick' = "post"
          => /\ (LacksDeviceId(request') \/ BadMetrics(request')) => response' = 400
             /\ (~LacksDeviceId(request') /\ ~BadMetrics(request')
                   /\ FindDevice(devices, request'.deviceId.value) = 0)
                  => response' = 404
             /\ response' \in {400, 404}
                  => /\ devices' = devices
                     /\ latestMetrics' = latestMetrics
                     /\ activeTransactions' = activeTransactions
                     /\ outbox' = <<>>
                     /\ \A i \in DOMAIN sent' : sent'[i] = <<>>]_vars

\* a request for an unknown device that carries a status and metrics was
\* answered 404 at a time later than the first device's lastSeen
C26_Witness ==
    /\ lastTick = "post"
    /\ response = 404
    /\ "status" \in DOMAIN request
    /\ "metrics" \in DOMAIN request
    /\ now > devices[1].lastSeen

\* the step accepted inbound telemetry: a POST answered 200, or a message
\* of a client with a string deviceId
Accepted ==
    \/ lastTick' = "post" /\ response' = 200
    \/ lastTick' = "message" /\ ~Unusable(request')

\* C27: every envelope broadcast for accepted inbound telemetry (a POST or a
\* message over the push channel) has type "telemetry", whatever fields the
\* client's payload carries
C27_InboundIsTelemetryOnly ==
    [][Accepted => \A k \in DOMAIN outbox' : outbox'[k].type = "telemetry"]_vars

\* the status the liveness rule gives a device at time t
Due(dev, t) ==
    IF t - dev.lastSeen > DEVICE_OFFLINE_TIMEOUT THEN "offline" ELSE "online"

\* C28: after a liveness tick every device is offline if now - lastSeen
\* exceeds the timeout and online otherwise, and a second tick at the same
\* instant would change nothing
C28_TickSetsStatusByAge ==
    [][lastTick' = "liveness"
          => /\ \A i \in DOMAIN devices' : devices'[i].status = Due(devices'[i], now')
             /\ \A i \in DOMAIN devices' : Flag(devices'[i], now') = devices'[i]]_vars

\* C29: the status of every device in the registry is "online" or "offline"
C29_StatusOnlineOrOffline ==
    \A i \in DOMAIN devices : devices[i].status \in {"online", "offline"}

\* the device with address ip, in registry ds
DeviceAt(ds, ip) == ds[CHOOSE i \in DOMAIN ds : ds[i].ip = ip]

\* C30: when the engine emits telemetry for a device the device's lastSeen
\* becomes the time of the emission, and a device for which telemetry was
\* just emitted is not flagged offline
C30_EmissionRefreshesLastSeen ==
    /\ [][lastTick' = "engine"
           => \A ip \in DOMAIN emitted' :
                 emitted'[ip] # <<>> => DeviceAt(devices', ip).lastSeen = now']_vars
    /\ []((lastTick = "engine")
             => \A ip \in DOMAIN emitted :
                   emitted[ip] # <<>> => DeviceAt(devices, ip).status # "offline")

(***************************************************************************)
(* Properties of the start phase and of the registry's size                *)
(***************************************************************************)
\* how many activeTransactions.set calls the step made
RECURSIVE Total(_)
Total(cnt) ==
    IF DOMAIN cnt = {} THEN 0
    ELSE LET k == CHOOSE k \in DOMAIN cnt : TRUE
         IN  cnt[k] + Total(MapDelete(cnt, k))

C32_CoreSetStays ==
    /\ Len(devices) >= CoreDevices
    /\ \A i \in 1..CoreDevices :
           /\ devices[i].id = SeedDevice(i - 1).id
           /\ devices[i].ip = SeedDevice(i - 1).ip
           /\ devices[i].name = SeedDevice(i - 1).name

\* a seeded device outside the core set has just been removed while a
\* device that joined later is still registered
C32_Witness ==
    /\ lastTick = "population"
    /\ notice # <<>>
    /\ notice[1].type = "device_exit"
    /\ notice[1].ip = SeedDevice(CoreDevices).ip
    /\ Len(devices) > CoreDevices

(***************************************************************************)
(* Properties of the client's reconnecting                                 *)
(***************************************************************************)
\* the last step handled the close event of a socket before teardown
ClosedBeforeTeardown == lastEvent = "close" /\ ~isDisposed

\* the last step called startDataListener and the constructor threw
FailedConnect ==
    /\ ~isDisposed
    /\ urlValid = "invalid"
    /\ emits # <<>>
    /\ lastEvent \in {"mount", "visibility", "timer"}

\* the model follows no further socket or attempt
Capped == ~CanConnect \/ reconnectAttempts >= MaxAttempts

\* C33: before teardown, a close event of the transport and a failed connect
\* are each followed, later, by a run of the reconnect timer's callback (a
\* new connect attempt), as long as the model follows further attempts
C33_CloseLeadsToReconnect ==
    /\ ClosedBeforeTeardown ~> (lastEvent = "timer" \/ isDisposed \/ Capped)
    /\ (FailedConnect /\ lastEvent # "timer")
          ~> (lastEvent = "timer" \/ isDisposed \/ Capped)
    /\ \A k \in 0..MaxAttempts :
           (FailedConnect /\ lastEvent = "timer" /\ reconnectAttempts = k)
             ~> ((lastEvent = "timer" /\ reconnectAttempts > k) \/ isDisposed \/ Capped)

\* the reconnect timer's callback ran for the second time after a close
C33_Witness ==
    /\ lastEvent = "timer"
    /\ reconnectAttempts = 2
    /\ urlValid = "valid"
    /\ ~isDisposed

\* the current socket is connecting or open
HealthyTransport == socket # 0 /\ sockets[socket] \in {"CONNECTING", "OPEN"}

\* C34: while the page stays visible and the client is not torn down, a step
\* taken with the current socket connecting or open is not the reconnect
\* timer's callback, keeps that socket the current one and does not put it
\* into CLOSING (the client neither closes nor replaces a healthy transport).
C34_HealthyTransportKept ==
    [][(HealthyTransport /\ ~hidden /\ ~hidden' /\ ~isDisposed')
          => /\ lastEvent' # "timer"
             /\ socket' = socket
             /\ sockets'[socket] # "CLOSING"]_vars

(***************************************************************************)
(* Properties of the decay timers across rebuilds of the node list         *)
(***************************************************************************)
\* C35: before teardown every blinking node has a pending decay timer whose
\* callback resets that node as it is displayed now, also after the node list
\* was rebuilt from a changed device list.
C35_ActiveNodeHasDecayTimer ==
    ~isDisposed =>
        \A k \in DOMAIN nodes :
            nodes[k].isBlinking =>
                \E t \in decayTimers : t.name = nodes[k].name /\ t.live

(***************************************************************************)
(* Properties of the client's device list against the registry             *)
(***************************************************************************)
\* C36: for a client that loaded the registry and handles every join and exit
\* notice, the addresses in its device list are the addresses in the registry
\* after every population tick.
C36_ListMirrorsRegistry ==
    {appDevices[i].ip : i \in DOMAIN appDevices} = DeviceIps(devices)

(***************************************************************************)
(* Properties of a transaction's lifetime                                  *)
(***************************************************************************)
\* C37: with the registry unchanged, a transaction the engine deletes has been
\* progressed by at least 6 and at most 10 engine ticks, the tick that
\* created it counted, and its device is idle after the deleting tick; a
\* transaction that is still active has been progressed by fewer than 10.
C37_LifetimeSixToTen ==
    /\ \A f \in finished :
          /\ age[f.ip] >= 6
          /\ age[f.ip] <= 10
          /\ f.ip \notin DOMAIN activeTransactions
    /\ \A ip \in DOMAIN activeTransactions : age[ip] < 10

\* a transaction was deleted on its 6th tick and another on its 10th
C37_Witness ==
    \E f, g \in finished : age[f.ip] = 6 /\ age[g.ip] = 10

(***************************************************************************)
(* Properties of the reconnect timer                                       *)
(***************************************************************************)
\* C38: at most one reconnect timer is pending, and a pending one is the
\* timer whose handle reconnectTimer holds (the one scheduled last).
C38_OnePendingReconnectTimer ==
    /\ Cardinality(pendingTimers) <= 1
    /\ pendingTimers \subseteq {reconnectTimer}

\* the close event of a second socket scheduled a reconnect with no attempt
\* counted: the timer of the first close was replaced
C38_Witness ==
    /\ lastEvent = "close"
    /\ scheduled # <<>>
    /\ socket = 2
    /\ reconnectAttempts = 0
    /\ reconnectTimer = 2
    /\ pendingTimers = {2}

(***************************************************************************)
(* Properties of the registry's size                                       *)
(***************************************************************************)
\* C39: the registry holds at least MinDevices and at most MaxDevices devices
\* in every state; a step that adds a device starts below MaxDevices and a
\* step that removes one starts above MinDevices.
C39_RegistrySizeInRange ==
    /\ [](Len(devices) >= MinDevices /\ Len(devices) <= MaxDevices)
    /\ [][/\ Len(devices') > Len(devices) => Len(devices) < MaxDevices
          /\ Len(devices') < Len(devices) => Len(devices) > MinDevices]_vars

\* a join filled the registry to its upper size
C39_Witness ==
    /\ lastTick = "population"
    /\ notice # <<>>
    /\ notice[1].type = "device_join"
    /\ Len(devices) = MaxDevices

(***************************************************************************)
(* Properties of the mock server                                           *)
(***************************************************************************)
\* the stageId that follows last in a session's packets for one device
StageAfter(last) ==
    CASE last = "AUTH" -> "ENCRYPT"
      [] last = "ENCRYPT" -> "DECRYPT"
      [] last = "DECRYPT" -> "HASH"
      [] OTHER -> "AUTH"

\* the telemetry packets the step sends
MockPacketsSent == {m \in {mockSent'[j] : j \in DOMAIN mockSent'} : "source" \in DOMAIN m.packet}

\* C40: every packet a session of the mock server is sent for a device carries
\* the stage that follows the stage of the session's previous packet for that
\* device (AUTH first and after HASH), a HASH packet has isLastStage, no
\* packet carries a stage beyond HASH and no transaction has a stage index
\* above 3, with several sessions connected and with sessions closing.
C40_MockStagesInOrderPerSession ==
    /\ [](\A ip \in DOMAIN mockTransactions :
             mockTransactions[ip].stageIndex <= Len(STAGE_IDS) - 1)
    /\ [][\A m \in MockPacketsSent :
             /\ m.packet.stageId # "undefined"
             /\ m.packet.stageId = "HASH" => m.packet.isLastStage
             /\ m.packet.stageId = StageAfter(mockLast[m.to][m.packet.source])]_vars

====
